---- MODULE Spec2Model ----
(***************************************************************************)
(* Model of src/app.py: the Streamlit session state, the UI handlers       *)
(* connect_to_video_id / start_watch / stop_watch / manual send, and the   *)
(* background ChatWatcher.run loop with its reply gate.                    *)
(*                                                                         *)
(* Time is in whole seconds, the polling interval in milliseconds.         *)
(* The "time" and "owner" fields of a chat row are not modelled: no        *)
(* operation reads them back.                                              *)
(***************************************************************************)
EXTENDS Integers, Sequences, FiniteSets, TLC

(***************************************************************************)
(* Bounds of the model                                                     *)
(***************************************************************************)
MaxThreads == 2     \* ChatWatcher threads ever started in one behaviour
MaxLog == 2         \* rows appended to chat_log in one behaviour
MaxPageLen == 2     \* items in one liveChatMessages.list response
MaxTicks == 3       \* the clock runs for 5 * MaxTicks seconds

(***************************************************************************)
(* Program constants                                                       *)
(***************************************************************************)
RateLimitSec == 15          \* rate_limit_sec=15
JoinTimeoutSec == 3         \* watcher_thread.join(timeout=3)
DefaultPollMs == 3000       \* polling_interval = 3.0 / pollingIntervalMillis default
MinPollMs == 1000           \* max(1.0, ...)
ErrorSleepSec == 5          \* time.sleep(5) in the except branch
DisplayTail == 800          \* chat_log[-800:] in render_chat_log
ReplyMaxLen == 50           \* text[:50] in generate_ai_reply
EpochNow == 100             \* time.time() when the session starts (any value >= RateLimitSec)

None == "None"

\* ss.watcher_thread = NoThread
NoThread == 0

Threads == 1..MaxThreads

\* ss.chat_lock is held by nobody
Free == 0
\* the script thread as a holder of ss.chat_lock
UiThread == MaxThreads + 1

\* ss.my_channel_id: set to None by init_session_state and assigned nowhere else
my_channel_id == None

\* the channel the bot's credentials post as
BotChannel == "UC_BOT"
Authors == {"UC_A", BotChannel}

(***************************************************************************)
(* The transport's items.  An external message id determines its author   *)
(* and its text; a non-text event has no textMessageDetails.               *)
(***************************************************************************)
MsgIds == {"m1", "m2", "m3", "m4"}

ItemChannel(id) == IF id = "m3" THEN BotChannel ELSE "UC_A"
ItemName(id) == IF id = "m3" THEN "BotAccount" ELSE "Alice"
ItemText(id) == IF id = "m4" THEN None ELSE id

RECURSIVE SeqsUpTo(_, _)
SeqsUpTo(S, n) ==
    IF n = 0 THEN {<<>>}
    ELSE LET shorter == SeqsUpTo(S, n - 1)
         IN shorter \cup {Append(s, x) : s \in {q \in shorter : Len(q) = n - 1}, x \in S}

\* a response lists a message once
Pages == {q \in SeqsUpTo(MsgIds, MaxPageLen) : \A i, j \in 1..Len(q) : q[i] = q[j] => i = j}

Tokens == {None, "t1", "t2"}
\* resp.get("pollingIntervalMillis"): a set holding the value, empty when the key is absent
IntervalInputs == {{}, {200}, {5000}}
SendOutcomes == {"ok", "http_error", "raise"}
\* the greeting sends of the lifecycle specifications succeed or raise
GreetOutcomes == {"ok", "raise"}
TickSteps == {5, 10}

\* execute_with_retry has not run yet
NoCall == [calls |-> 0, result |-> None]

\* a watcher that has sent no list request yet: self.next_page_token = None
\* and no response
NoFetch == [req |-> None, resp |-> <<>>]

VARIABLES
    yt_connected,       \* ss.yt_connected
    yt_live_chat_id,    \* ss.yt_live_chat_id ("" when unset)
    auto_greet,         \* ss.auto_greet
    ai_enabled,         \* ss.ai_enabled
    chat_log,           \* ss.chat_log
    stop_event,         \* ss.stop_event.is_set()
    watcher_thread,     \* ss.watcher_thread: None or a thread
    ui_pc,              \* position of the script thread: "idle", "join" (inside stop_watch's join)
                        \* or "farewell" (inside stop_watch's send after the join)
    ui_msg,             \* the last status the script thread showed (st.info / st.success / st.warning)
    pc,                 \* position of each ChatWatcher thread
    ai_model,           \* ChatWatcher.ai_model is not None
    auto_reply,         \* ChatWatcher.auto_reply
    character,          \* ChatWatcher.character is not None
    next_page_token,    \* ChatWatcher.next_page_token
    polling_interval,   \* run's local polling_interval, in ms
    last_reply_at,      \* ChatWatcher.last_reply_at, 0 for a missing key
    page,               \* resp["items"] of the cycle in progress
    idx,                \* position of the for loop in page
    cycle_start,        \* history: Len(chat_log) when the cycle in progress fetched its page
    now,                \* time.time()
    log_src,            \* history, one entry per row of chat_log: who appended it and how its send ended
    decisions,          \* history: every _should_reply call on a fetched item, in order
    chat_lock,          \* ss.chat_lock: who holds it, Free when nobody does
    last_call,          \* history: the requests made and the outcome of the latest
                        \* execute_with_retry
    fetch_hist          \* history, per watcher: the pageToken of its list request in flight
                        \* or failed (req, None once a response has come) and the latest
                        \* response it got (resp, empty before the first)

ss_vars == <<yt_connected, yt_live_chat_id, auto_greet, ai_enabled, chat_log,
             stop_event, watcher_thread, ui_pc, ui_msg>>
watcher_vars == <<pc, ai_model, auto_reply, character, next_page_token, polling_interval,
                  last_reply_at, page, idx, cycle_start>>
env_vars == <<now, log_src, decisions, chat_lock, fetch_hist, last_call>>
vars == <<ss_vars, watcher_vars, env_vars>>

(***************************************************************************)
(* Rows of the chat log                                                    *)
(***************************************************************************)
UserRow(id) == [author |-> ItemName(id), text |-> ItemText(id), bot |-> FALSE, sent |-> None]
BotRow(text, sent) == [author |-> "Bot", text |-> text, bot |-> TRUE, sent |-> sent]
SystemRow == [author |-> "System", text |-> "Watcher error", bot |-> TRUE, sent |-> None]

\* send_chat_message: True after a successful insert, False on HttpError;
\* any other exception leaves the function ("raise")
send_chat_message(outcome) == IF outcome = "ok" THEN "True" ELSE "False"

\* mutant of AppendChat: the row goes to the front of the log
AppendChatInFront(row, by, w, outcome) ==
    /\ chat_log' = <<row>> \o chat_log
    /\ log_src' = <<[by |-> by, w |-> w, outcome |-> outcome]>> \o log_src

\* append_chat(row), with the history entry of the row: the operation that
\* appended it (by), the watcher thread when it is one (w), and how the send
\* behind the row ended (outcome).  st.session_state is taken to be the one
\* session dict in the script thread and in the watcher threads alike.
AppendChat(row, by, w, outcome) ==
    /\ chat_log' = Append(chat_log, row)
    /\ log_src' = Append(log_src, [by |-> by, w |-> w, outcome |-> outcome])

\* the model stops appending at MaxLog rows
LogRoom == Len(chat_log) < MaxLog

IsAlive(t) == t # NoThread /\ pc[t] \notin {"unborn", "done"}

Init ==
    /\ yt_connected = FALSE
    /\ yt_live_chat_id = ""
    /\ auto_greet = TRUE
    /\ ai_enabled = TRUE
    /\ chat_log = <<>>
    /\ stop_event = FALSE
    /\ watcher_thread = NoThread
    /\ ui_pc = "idle"
    /\ ui_msg = None
    /\ pc = [t \in Threads |-> "unborn"]
    /\ ai_model = [t \in Threads |-> FALSE]
    /\ auto_reply = [t \in Threads |-> FALSE]
    /\ character = [t \in Threads |-> FALSE]
    /\ next_page_token = [t \in Threads |-> None]
    /\ polling_interval = [t \in Threads |-> DefaultPollMs]
    /\ last_reply_at = [t \in Threads |-> [a \in Authors |-> 0]]
    /\ page = [t \in Threads |-> <<>>]
    /\ idx = [t \in Threads |-> 1]
    /\ cycle_start = [t \in Threads |-> 0]
    /\ now = EpochNow
    /\ log_src = <<>>
    /\ decisions = <<>>
    /\ chat_lock = Free
    /\ fetch_hist = [t \in Threads |-> NoFetch]
    /\ last_call = NoCall

(***************************************************************************)
(* The script thread: UI handlers                                          *)
(***************************************************************************)
\* Every script run shows its own status only: ui_msg is the status of the latest
\* run, None when the handler shows none.
\* the two toggles of controls_ui
ToggleAutoGreet ==
    /\ ui_pc = "idle"
    /\ auto_greet' = ~auto_greet
    /\ ui_msg' = None
    /\ UNCHANGED <<yt_connected, yt_live_chat_id, ai_enabled, chat_log, stop_event,
                   watcher_thread, ui_pc, watcher_vars, env_vars>>

ToggleAI ==
    /\ ui_pc = "idle"
    /\ ai_enabled' = ~ai_enabled
    /\ ui_msg' = None
    /\ UNCHANGED <<yt_connected, yt_live_chat_id, auto_greet, chat_log, stop_event,
                   watcher_thread, ui_pc, watcher_vars, env_vars>>

\* a greeting send of connect_to_video_id / stop_watch: the result of
\* send_chat_message is dropped and the row says sent=True
GreetingSend(text, by, outcome) ==
    IF outcome = "raise"
    THEN /\ ui_msg' = "exception"
         /\ UNCHANGED <<chat_log, log_src>>
    ELSE /\ LogRoom
         /\ AppendChat(BotRow(text, "True"), by, NoThread, outcome)

\* connect_to_video_id, once get_live_chat_id has returned a chat id
Connect(outcome) ==
    /\ ui_pc = "idle"
    /\ yt_live_chat_id' = "LC"
    /\ yt_connected' = TRUE
    /\ IF auto_greet
       THEN /\ GreetingSend("start_msg", "connect", outcome)
            /\ IF outcome = "raise" THEN TRUE ELSE ui_msg' = "connected"
       ELSE /\ outcome = "ok"
            /\ ui_msg' = "connected"
            /\ UNCHANGED <<chat_log, log_src>>
    /\ UNCHANGED <<auto_greet, ai_enabled, stop_event, watcher_thread, ui_pc,
                   watcher_vars, now, decisions, chat_lock, fetch_hist, last_call>>

\* mutant of StartWatchRefuses: no guard against a running watcher
StartWatchNeverRefuses == FALSE

\* line 1147: the guard of start_watch against a running watcher
StartWatchRefuses == watcher_thread # NoThread /\ IsAlive(watcher_thread)

NewThread == CHOOSE t \in Threads : pc[t] = "unborn" /\ \A u \in Threads : u < t => pc[u] # "unborn"

\* start_watch; gemini_ok: setup_gemini returns a model; character_ok:
\* current_persona_and_character finds a character
StartWatch(gemini_ok, character_ok) ==
    /\ ui_pc = "idle"
    /\ IF ~yt_connected
       THEN /\ ui_msg' = "connect first"
            /\ UNCHANGED <<stop_event, watcher_thread, watcher_vars>>
       ELSE IF StartWatchRefuses
       THEN /\ ui_msg' = "already running"
            /\ UNCHANGED <<stop_event, watcher_thread, watcher_vars>>
       ELSE /\ \E t \in Threads : pc[t] = "unborn"
            /\ LET th == NewThread IN
               /\ stop_event' = FALSE
               /\ ai_model' = [ai_model EXCEPT ![th] = ai_enabled /\ gemini_ok]
               /\ auto_reply' = [auto_reply EXCEPT ![th] = ai_enabled]
               /\ character' = [character EXCEPT ![th] = character_ok]
               /\ pc' = [pc EXCEPT ![th] = "top"]
               /\ watcher_thread' = th
            /\ ui_msg' = "started"
            /\ UNCHANGED <<next_page_token, polling_interval, last_reply_at, page, idx, cycle_start>>
    /\ UNCHANGED <<yt_connected, yt_live_chat_id, auto_greet, ai_enabled, chat_log,
                   ui_pc, env_vars>>

\* the thread can still be running when join(timeout=3) gives up, 3 s after
\* the join began: it is in a network call, in the except clause, in the 5 s
\* error sleep, or in a poll sleep (of any length: the sleep may have begun
\* any time after the join did)
CanOutlastJoin(t) == pc[t] \in {"fetching", "reply", "except", "error_sleep", "finally"}

\* lines 1181-1202 of stop_watch when no watcher was running
Goodbye(send_goodbye, outcome, msg) ==
    IF send_goodbye /\ yt_connected /\ yt_live_chat_id # ""
    THEN /\ GreetingSend("end_msg", "stop", outcome)
         /\ IF outcome = "raise" THEN TRUE ELSE ui_msg' = msg
    ELSE /\ outcome = "ok"
         /\ ui_msg' = msg
         /\ UNCHANGED <<chat_log, log_src>>

\* stop_watch(send_goodbye=ss.auto_greet) up to the join, or whole when no watcher runs
StopWatch(outcome) ==
    /\ ui_pc = "idle"
    /\ IF watcher_thread # NoThread /\ IsAlive(watcher_thread)
       THEN /\ outcome = "ok"
            /\ stop_event' = TRUE
            /\ ui_pc' = "join"
            /\ ui_msg' = None
            /\ UNCHANGED <<watcher_thread, chat_log, log_src>>
       ELSE /\ Goodbye(auto_greet, outcome, None)
            /\ UNCHANGED <<stop_event, ui_pc, watcher_thread>>
    /\ UNCHANGED <<yt_connected, yt_live_chat_id, auto_greet, ai_enabled,
                   watcher_vars, now, decisions, chat_lock, fetch_hist, last_call>>

\* lines 1178-1181 of stop_watch: join(timeout=3) returns, the thread is
\* dropped and "stopped" is shown; with a farewell to send the script thread
\* goes into send_chat_message
StopWatchJoined ==
    /\ ui_pc = "join"
    /\ ~IsAlive(watcher_thread) \/ CanOutlastJoin(watcher_thread)
    /\ watcher_thread' = NoThread
    /\ ui_msg' = "stopped"
    /\ ui_pc' = IF auto_greet /\ yt_connected /\ yt_live_chat_id # "" THEN "farewell" ELSE "idle"
    /\ UNCHANGED <<yt_connected, yt_live_chat_id, auto_greet, ai_enabled, chat_log, stop_event,
                   watcher_vars, env_vars>>

\* lines 1192-1202 of stop_watch after a join: send_chat_message returns and
\* the farewell row is appended, or the send raises
StopWatchFarewell(outcome) ==
    /\ ui_pc = "farewell"
    /\ ui_pc' = "idle"
    /\ GreetingSend("end_msg", "stop", outcome)
    /\ IF outcome = "raise" THEN TRUE ELSE UNCHANGED ui_msg
    /\ UNCHANGED <<yt_connected, yt_live_chat_id, auto_greet, ai_enabled, stop_event,
                   watcher_thread, watcher_vars, now, decisions, chat_lock, fetch_hist,
                   last_call>>

\* the texts of the three send buttons of main(): the typed message and the
\* two canned greetings
ButtonTexts == {"msg", "start_msg", "end_msg"}

\* a send button of main(), up to the history of execute_with_retry
ButtonSendCore(text, outcome) ==
    /\ ui_pc = "idle"
    /\ yt_live_chat_id # ""
    /\ IF outcome = "raise"
       THEN /\ ui_msg' = "exception"
            /\ UNCHANGED <<chat_log, log_src>>
       ELSE /\ AppendChat(BotRow(text, send_chat_message(outcome)), "manual", NoThread, outcome)
            /\ ui_msg' = None
    /\ UNCHANGED <<yt_connected, yt_live_chat_id, auto_greet, ai_enabled, stop_event,
                   watcher_thread, ui_pc, watcher_vars, now, decisions, chat_lock, fetch_hist>>

\* the send button for the typed message
ManualSendCore(outcome) == ButtonSendCore("msg", outcome)

\* the send button of main(), given how send_chat_message ends
ManualSendBody(outcome) == ManualSendCore(outcome) /\ UNCHANGED last_call

ManualSend(outcome) == LogRoom /\ ManualSendBody(outcome)

\* what one call of req_call does: it returns ("ok"), or it raises HttpError
\* ("http") or another exception ("other"); "_ssl" when the text of the
\* exception holds SSL_ERR_HINT
AttemptOutcomes == {"ok", "http", "http_ssl", "other", "other_ssl"}

\* line 217: SSL_ERR_HINT in es
HasSslHint(o) == o \in {"http_ssl", "other_ssl"}

\* mutant of execute_with_retry: every error is retried
execute_with_retry_any_error(first, second) ==
    IF first = "ok" THEN [calls |-> 1, result |-> first]
    ELSE [calls |-> 2, result |-> second]

\* execute_with_retry(req_call), req_call ending as `first` when called the
\* first time and as `second` when called again: the number of calls made and
\* what comes out, a return or the exception raised.  st.warning and
\* patch_http_transport change nothing the model keeps (ss._http_transport is
\* only displayed).
execute_with_retry(first, second) ==
    IF first = "ok" THEN [calls |-> 1, result |-> first]
    ELSE IF HasSslHint(first) THEN [calls |-> 2, result |-> second]
    ELSE [calls |-> 1, result |-> first]

\* lines 441-446: how send_chat_message ends for an outcome of execute_with_retry
SendOutcomeOf(result) ==
    IF result = "ok" THEN "ok"
    ELSE IF result \in {"http", "http_ssl"} THEN "http_error"
    ELSE "raise"

\* a send button of main(), with the calls of liveChatMessages.insert
SendWithRetry(text, first, second) ==
    /\ LogRoom
    /\ last_call' = execute_with_retry(first, second)
    /\ ButtonSendCore(text, SendOutcomeOf(last_call'.result))

\* time passes
Tick(d) ==
    /\ now + d <= EpochNow + 5 * MaxTicks
    /\ now' = now + d
    /\ UNCHANGED <<ss_vars, watcher_vars, log_src, decisions, chat_lock, fetch_hist, last_call>>

(***************************************************************************)
(* The ChatWatcher thread: run()                                           *)
(***************************************************************************)
Max(a, b) == IF a >= b THEN a ELSE b

\* mutant of ClampInterval: the transport's interval is taken as it comes
ClampIntervalNoFloor(ms) == IF ms = {} THEN DefaultPollMs ELSE CHOOSE x \in ms : TRUE

\* line 551: max(1.0, resp.get("pollingIntervalMillis", 3000) / 1000.0), in ms
ClampInterval(ms) == Max(MinPollMs, IF ms = {} THEN DefaultPollMs ELSE CHOOSE x \in ms : TRUE)

\* mutant of ShouldReply: no cooldown test
ShouldReplyNoCooldown(t, author) ==
    /\ auto_reply[t] /\ ai_model[t]
    /\ ~(my_channel_id # None /\ author = my_channel_id)

\* _should_reply up to its last two lines
ShouldReply(t, author) ==
    /\ auto_reply[t] /\ ai_model[t]
    /\ ~(my_channel_id # None /\ author = my_channel_id)
    /\ ~(now - last_reply_at[t][author] < RateLimitSec)

\* mutant of RecordReply: the authorization is not recorded
RecordReplyForgets(t, author) == last_reply_at

\* line 534: self.last_reply_at[author_channel_id] = now, on the way to return True
RecordReply(t, author) == [last_reply_at EXCEPT ![t][author] = now]

\* model.generate_content raises (GenError), or returns out.text: blank, a
\* short text, or a text of 80 characters
GenError == "error"
GenOutcomes == {GenError, "   ", "hi", "x80"}

\* the number of characters of a generated or sent text
TextLen(text) ==
    CASE text = "" -> 0
      [] text = "hi" -> 2
      [] text = "   " -> 3
      [] text = "x50" -> ReplyMaxLen
      [] text = "x80" -> 80

\* line 489: (out.text or "").strip()
Strip(text) == IF text = "   " THEN "" ELSE text

\* line 490: text[:50]
Slice50(text) == IF TextLen(text) > ReplyMaxLen THEN "x50" ELSE text

\* lines 482-484: with a model, build_persona_prompt reads character.greetings
\* before the try block; without a character that raises AttributeError
GenRaises(t) == ai_model[t] /\ ~character[t]

\* mutant of generate_ai_reply: the text is not stripped
generate_ai_reply_unstripped(t, gen) ==
    IF ~ai_model[t] THEN ""
    ELSE IF gen = GenError THEN ""
    ELSE Slice50(gen)

\* generate_ai_reply with a character: "" without a model or when
\* generate_content raises, else the stripped text cut to 50 characters
generate_ai_reply(t, gen) ==
    IF ~ai_model[t] THEN ""
    ELSE IF gen = GenError THEN ""
    ELSE Slice50(Strip(gen))

\* the for loop moves to the next item, or ends and run reaches its finally clause
Advance(t) ==
    IF idx[t] < Len(page[t])
    THEN /\ pc' = [pc EXCEPT ![t] = "items"]
         /\ idx' = [idx EXCEPT ![t] = idx[t] + 1]
         /\ UNCHANGED <<page, cycle_start>>
    ELSE /\ pc' = [pc EXCEPT ![t] = "finally"]
         /\ page' = [page EXCEPT ![t] = <<>>]
         /\ idx' = [idx EXCEPT ![t] = 1]
         /\ cycle_start' = [cycle_start EXCEPT ![t] = 0]

\* mutant of Raise: no except clause, the exception ends run
RaiseUncaught(t) ==
    /\ pc' = [pc EXCEPT ![t] = "done"]
    /\ page' = [page EXCEPT ![t] = <<>>]
    /\ idx' = [idx EXCEPT ![t] = 1]
    /\ cycle_start' = [cycle_start EXCEPT ![t] = 0]

\* an exception leaves the try block: the rest of the page is dropped
Raise(t) ==
    /\ pc' = [pc EXCEPT ![t] = "except"]
    /\ page' = [page EXCEPT ![t] = <<>>]
    /\ idx' = [idx EXCEPT ![t] = 1]
    /\ cycle_start' = [cycle_start EXCEPT ![t] = 0]

\* mutant of PageTokenArg: every request starts from the beginning
PageTokenArgRestarts(t) == None

\* line 546: pageToken=self.next_page_token
PageTokenArg(t) == next_page_token[t]

\* line 539: while not self.stop_event.is_set(), and the list request of the
\* next cycle going out; when run returns, the thread ends and its ChatWatcher
\* is garbage
LoopTest(t) ==
    /\ pc[t] = "top"
    /\ IF stop_event
       THEN /\ pc' = [pc EXCEPT ![t] = "done"]
            /\ ai_model' = [ai_model EXCEPT ![t] = FALSE]
            /\ auto_reply' = [auto_reply EXCEPT ![t] = FALSE]
            /\ character' = [character EXCEPT ![t] = FALSE]
            /\ next_page_token' = [next_page_token EXCEPT ![t] = None]
            /\ polling_interval' = [polling_interval EXCEPT ![t] = DefaultPollMs]
            /\ last_reply_at' = [last_reply_at EXCEPT ![t] = [a \in Authors |-> 0]]
            /\ fetch_hist' = [fetch_hist EXCEPT ![t] = NoFetch]
       ELSE /\ pc' = [pc EXCEPT ![t] = "fetching"]
            /\ fetch_hist' = [fetch_hist EXCEPT ![t].req = PageTokenArg(t)]
            /\ UNCHANGED <<ai_model, auto_reply, character, next_page_token,
                           polling_interval, last_reply_at>>
    /\ UNCHANGED <<ss_vars, page, idx, cycle_start, now, log_src, decisions, chat_lock,
                   last_call>>

\* lines 541-553: liveChatMessages.list returns a page
FetchOk(t, items, tok, ms) ==
    /\ pc[t] = "fetching"
    /\ next_page_token' = [next_page_token EXCEPT ![t] = tok]
    /\ polling_interval' = [polling_interval EXCEPT ![t] = ClampInterval(ms)]
    /\ IF items = <<>>
       THEN /\ pc' = [pc EXCEPT ![t] = "finally"]
            /\ UNCHANGED <<page, idx, cycle_start>>
       ELSE /\ pc' = [pc EXCEPT ![t] = "items"]
            /\ page' = [page EXCEPT ![t] = items]
            /\ idx' = [idx EXCEPT ![t] = 1]
            /\ cycle_start' = [cycle_start EXCEPT ![t] = Len(chat_log)]
    /\ fetch_hist' = [fetch_hist EXCEPT ![t] = [req |-> None, resp |-> <<[tok |-> tok, ms |-> ms]>>]]
    /\ UNCHANGED <<ss_vars, ai_model, auto_reply, character, last_reply_at, now, log_src,
                   decisions, chat_lock, last_call>>

\* liveChatMessages.list raises
FetchFail(t) ==
    /\ pc[t] = "fetching"
    /\ Raise(t)
    /\ UNCHANGED <<ss_vars, ai_model, auto_reply, character, next_page_token, polling_interval,
                   last_reply_at, env_vars>>

\* mutant of SkipItem: break instead of continue
SkipItemBreaks(t) ==
    /\ pc[t] = "items"
    /\ ItemText(page[t][idx[t]]) = None
    /\ pc' = [pc EXCEPT ![t] = "finally"]
    /\ page' = [page EXCEPT ![t] = <<>>]
    /\ idx' = [idx EXCEPT ![t] = 1]
    /\ cycle_start' = [cycle_start EXCEPT ![t] = 0]
    /\ UNCHANGED <<ss_vars, ai_model, auto_reply, character, next_page_token, polling_interval,
                   last_reply_at, env_vars>>

\* lines 559-560: an item without messageText
SkipItem(t) ==
    /\ pc[t] = "items"
    /\ ItemText(page[t][idx[t]]) = None
    /\ Advance(t)
    /\ UNCHANGED <<ss_vars, ai_model, auto_reply, character, next_page_token, polling_interval,
                   last_reply_at, env_vars>>

\* lines 561-578: the row of a text item, then the reply gate
ProcessItem(t) ==
    /\ pc[t] = "items"
    /\ LET id == page[t][idx[t]]
           author == ItemChannel(id)
           ok == ShouldReply(t, author)
       IN /\ ItemText(id) # None
          /\ LogRoom
          /\ AppendChat(UserRow(id), "item", t, None)
          /\ decisions' = Append(decisions, [w |-> t, id |-> id, at |-> now, ok |-> ok])
          /\ IF ok
             THEN /\ last_reply_at' = RecordReply(t, author)
                  /\ pc' = [pc EXCEPT ![t] = "reply"]
                  /\ UNCHANGED <<page, idx, cycle_start>>
             ELSE /\ Advance(t)
                  /\ UNCHANGED last_reply_at
    /\ UNCHANGED <<yt_connected, yt_live_chat_id, auto_greet, ai_enabled, stop_event,
                   watcher_thread, ui_pc, ui_msg, ai_model, auto_reply, character,
                   next_page_token,
                   polling_interval, now, chat_lock, fetch_hist, last_call>>

\* lines 579-595: generate, and send a non-empty reply
Reply(t, gen, outcome) ==
    /\ pc[t] = "reply"
    /\ IF GenRaises(t)
       THEN \* the model is not called and nothing is sent
            /\ gen = GenError /\ outcome = "ok"
            /\ Raise(t)
            /\ UNCHANGED <<chat_log, log_src>>
       ELSE LET reply == generate_ai_reply(t, gen)
            IN IF reply = ""
               THEN /\ outcome = "ok"
                    /\ Advance(t)
                    /\ UNCHANGED <<chat_log, log_src>>
               ELSE IF outcome = "raise"
               THEN /\ Raise(t)
                    /\ UNCHANGED <<chat_log, log_src>>
               ELSE /\ LogRoom
                    /\ AppendChat(BotRow(reply, send_chat_message(outcome)), "reply", t, outcome)
                    /\ Advance(t)
    /\ UNCHANGED <<yt_connected, yt_live_chat_id, auto_greet, ai_enabled, stop_event,
                   watcher_thread, ui_pc, ui_msg, ai_model, auto_reply, character,
                   next_page_token,
                   polling_interval, last_reply_at, now, decisions, chat_lock, fetch_hist, last_call>>

\* lines 596-606: the System row, then time.sleep(5)
Except(t) ==
    /\ pc[t] = "except"
    /\ LogRoom
    /\ AppendChat(SystemRow, "except", t, None)
    /\ pc' = [pc EXCEPT ![t] = "error_sleep"]
    /\ UNCHANGED <<yt_connected, yt_live_chat_id, auto_greet, ai_enabled, stop_event,
                   watcher_thread, ui_pc, ui_msg, ai_model, auto_reply, character,
                   next_page_token,
                   polling_interval, last_reply_at, page, idx, cycle_start, now,
                   decisions, chat_lock, fetch_hist, last_call>>

\* time.sleep(5) returns
ErrorSleepDone(t) ==
    /\ pc[t] = "error_sleep"
    /\ pc' = [pc EXCEPT ![t] = "finally"]
    /\ UNCHANGED <<ss_vars, ai_model, auto_reply, character, next_page_token, polling_interval,
                   last_reply_at, page, idx, cycle_start, env_vars>>

\* lines 607-608: time.sleep(polling_interval) returns
PollSleepDone(t) ==
    /\ pc[t] = "finally"
    /\ pc' = [pc EXCEPT ![t] = "top"]
    /\ UNCHANGED <<ss_vars, ai_model, auto_reply, character, next_page_token, polling_interval,
                   last_reply_at, page, idx, cycle_start, env_vars>>

(***************************************************************************)
(* Spec: the session's lifecycle.  The connect, start, stop and greeting   *)
(* toggle handlers and up to MaxThreads watcher threads; the transport     *)
(* returns empty pages or fails, and the clock stands still.               *)
(***************************************************************************)
Next ==
    \/ ToggleAutoGreet
    \/ \E o \in GreetOutcomes : Connect(o)
    \/ StartWatch(TRUE, TRUE)
    \/ \E o \in GreetOutcomes : StopWatch(o)
    \/ StopWatchJoined
    \/ \E o \in GreetOutcomes : StopWatchFarewell(o)
    \/ \E t \in Threads : LoopTest(t)
    \/ \E t \in Threads : FetchOk(t, <<>>, "t1", {})
    \/ \E t \in Threads : FetchFail(t)
    \/ \E t \in Threads : Except(t)
    \/ \E t \in Threads : ErrorSleepDone(t)
    \/ \E t \in Threads : PollSleepDone(t)

Spec == Init /\ [][Next]_vars

(***************************************************************************)
(* SpecLoop: one watcher at work.  The session is connected and            *)
(* start_watch has just started thread 1, with any of the configurations   *)
(* start_watch can give it; the transport returns any page, the clock      *)
(* advances, and the script thread can stop the watcher.  The farewell     *)
(* send of the script thread succeeds; the sends of the watcher can fail   *)
(* or raise.                                                               *)
(***************************************************************************)
InitLoop ==
    /\ yt_connected = TRUE
    /\ yt_live_chat_id = "LC"
    /\ auto_greet = TRUE
    /\ ai_enabled \in BOOLEAN
    /\ chat_log = <<>>
    /\ stop_event = FALSE
    /\ watcher_thread = 1
    /\ ui_pc = "idle"
    /\ ui_msg = "started"
    /\ pc = [t \in Threads |-> IF t = 1 THEN "top" ELSE "unborn"]
    /\ auto_reply = [t \in Threads |-> t = 1 /\ ai_enabled]
    /\ \E g \in BOOLEAN : ai_model = [t \in Threads |-> t = 1 /\ ai_enabled /\ g]
    \* run reads the character only on the way to the model
    /\ \E c \in BOOLEAN : /\ character = [t \in Threads |-> t = 1 /\ c]
                          /\ ai_model[1] \/ c
    /\ next_page_token = [t \in Threads |-> None]
    /\ polling_interval = [t \in Threads |-> DefaultPollMs]
    /\ last_reply_at = [t \in Threads |-> [a \in Authors |-> 0]]
    /\ page = [t \in Threads |-> <<>>]
    /\ idx = [t \in Threads |-> 1]
    /\ cycle_start = [t \in Threads |-> 0]
    /\ now = EpochNow
    /\ log_src = <<>>
    /\ decisions = <<>>
    /\ chat_lock = Free
    /\ fetch_hist = [t \in Threads |-> NoFetch]
    /\ last_call = NoCall

NextLoop ==
    \/ \E d \in TickSteps : Tick(d)
    \/ StopWatch("ok")
    \/ StopWatchJoined
    \/ StopWatchFarewell("ok")
    \/ LoopTest(1)
    \/ \E items \in Pages : FetchOk(1, items, "t1", {})
    \/ FetchFail(1)
    \/ SkipItem(1)
    \/ ProcessItem(1)
    \/ \E g \in GenOutcomes, o \in SendOutcomes : Reply(1, g, o)
    \/ Except(1)
    \/ ErrorSleepDone(1)
    \/ PollSleepDone(1)

SpecLoop == InitLoop /\ [][NextLoop]_vars

(***************************************************************************)
(* SpecLog: the script thread sends by hand, again and again, in a         *)
(* connected session with no watcher.                                      *)
(***************************************************************************)
InitLog ==
    /\ yt_connected = TRUE
    /\ yt_live_chat_id = "LC"
    /\ auto_greet = FALSE
    /\ ai_enabled = TRUE
    /\ chat_log = <<>>
    /\ stop_event = FALSE
    /\ watcher_thread = NoThread
    /\ ui_pc = "idle"
    /\ ui_msg = "connected"
    /\ pc = [t \in Threads |-> "unborn"]
    /\ ai_model = [t \in Threads |-> FALSE]
    /\ auto_reply = [t \in Threads |-> FALSE]
    /\ character = [t \in Threads |-> FALSE]
    /\ next_page_token = [t \in Threads |-> None]
    /\ polling_interval = [t \in Threads |-> DefaultPollMs]
    /\ last_reply_at = [t \in Threads |-> [a \in Authors |-> 0]]
    /\ page = [t \in Threads |-> <<>>]
    /\ idx = [t \in Threads |-> 1]
    /\ cycle_start = [t \in Threads |-> 0]
    /\ now = EpochNow
    /\ log_src = <<>>
    /\ decisions = <<>>
    /\ chat_lock = Free
    /\ fetch_hist = [t \in Threads |-> NoFetch]
    /\ last_call = NoCall

SendNow == Len(chat_log) <= DisplayTail /\ ManualSendBody("ok")

NextLog == SendNow

SpecLog == InitLog /\ [][NextLog]_vars

(***************************************************************************)
(* SpecStart: start_watch with every outcome of its collaborators.  The    *)
(* session of Spec, with the AI toggle, and setup_gemini and               *)
(* current_persona_and_character returning something or None; the          *)
(* transport returns empty pages.                                          *)
(***************************************************************************)
NextStart ==
    \/ ToggleAI
    \/ \E o \in GreetOutcomes : Connect(o)
    \/ \E g, c \in BOOLEAN : StartWatch(g, c)
    \/ \E o \in GreetOutcomes : StopWatch(o)
    \/ StopWatchJoined
    \/ \E o \in GreetOutcomes : StopWatchFarewell(o)
    \/ \E t \in Threads : LoopTest(t)
    \/ \E t \in Threads : FetchOk(t, <<>>, "t1", {})
    \/ \E t \in Threads : PollSleepDone(t)

SpecStart == Init /\ [][NextStart]_vars

(***************************************************************************)
(* SpecLock: the chat lock.  The appends of append_chat are split at the   *)
(* acquisition of ss.chat_lock, for a watcher whose fetches fail and for   *)
(* the send button, and the script thread renders the log.  In the other   *)
(* specifications an append is one step and the lock is free in every      *)
(* state.                                                                  *)
(***************************************************************************)
\* lines 596-597 and 655: run's except clause calls append_chat, which enters
\* "with ss.chat_lock"
ExceptLock(t) ==
    /\ pc[t] = "except"
    /\ LogRoom
    /\ chat_lock = Free
    /\ chat_lock' = t
    /\ pc' = [pc EXCEPT ![t] = "except_locked"]
    /\ UNCHANGED <<ss_vars, ai_model, auto_reply, character, next_page_token, polling_interval,
                   last_reply_at, page, idx, cycle_start, now, log_src, decisions,
                   fetch_hist, last_call>>

\* line 656 and the end of the with block, then time.sleep(5) begins
ExceptAppend(t) ==
    /\ pc[t] = "except_locked"
    /\ AppendChat(SystemRow, "except", t, None)
    /\ chat_lock' = Free
    /\ pc' = [pc EXCEPT ![t] = "error_sleep"]
    /\ UNCHANGED <<yt_connected, yt_live_chat_id, auto_greet, ai_enabled, stop_event,
                   watcher_thread, ui_pc, ui_msg, ai_model, auto_reply, character,
                   next_page_token, polling_interval, last_reply_at, page, idx,
                   cycle_start, now, decisions, fetch_hist, last_call>>

\* the send button: send_chat_message returns True, then append_chat enters
\* "with ss.chat_lock"
SendNowLock ==
    /\ ui_pc = "idle"
    /\ yt_live_chat_id # ""
    /\ LogRoom
    /\ chat_lock = Free
    /\ chat_lock' = UiThread
    /\ ui_pc' = "append"
    /\ ui_msg' = None
    /\ UNCHANGED <<yt_connected, yt_live_chat_id, auto_greet, ai_enabled, chat_log,
                   stop_event, watcher_thread, watcher_vars, now, log_src, decisions,
                   fetch_hist, last_call>>

\* line 656 and the end of the with block, in the script thread
SendNowAppend ==
    /\ ui_pc = "append"
    /\ AppendChat(BotRow("msg", send_chat_message("ok")), "manual", NoThread, "ok")
    /\ chat_lock' = Free
    /\ ui_pc' = "idle"
    /\ UNCHANGED <<yt_connected, yt_live_chat_id, auto_greet, ai_enabled, stop_event,
                   watcher_thread, ui_msg, watcher_vars, now, decisions, fetch_hist,
                   last_call>>

\* render_chat_log, line 760: the script thread reads ss.chat_log[-800:]; it
\* does not touch ss.chat_lock
RenderBegin ==
    /\ ui_pc = "idle"
    /\ ui_pc' = "render"
    /\ ui_msg' = None
    /\ UNCHANGED <<yt_connected, yt_live_chat_id, auto_greet, ai_enabled, chat_log,
                   stop_event, watcher_thread, watcher_vars, env_vars>>

\* the rows are drawn and the script run ends
RenderEnd ==
    /\ ui_pc = "render"
    /\ ui_pc' = "idle"
    /\ UNCHANGED <<yt_connected, yt_live_chat_id, auto_greet, ai_enabled, chat_log,
                   stop_event, watcher_thread, ui_msg, watcher_vars, env_vars>>

InitLock == InitLoop /\ ~ai_enabled

NextLock ==
    \/ LoopTest(1)
    \/ FetchOk(1, <<>>, "t1", {})
    \/ FetchFail(1)
    \/ ExceptLock(1)
    \/ ExceptAppend(1)
    \/ ErrorSleepDone(1)
    \/ PollSleepDone(1)
    \/ SendNowLock
    \/ SendNowAppend
    \/ RenderBegin
    \/ RenderEnd

SpecLock == InitLock /\ [][NextLock]_vars

(***************************************************************************)
(* SpecPoll: cursor and poll interval.  One started watcher; every         *)
(* response carries any nextPageToken (or none) and any                    *)
(* pollingIntervalMillis (or none), with an empty page or one message;     *)
(* list calls and sends can fail, and the script thread can send by hand   *)
(* and stop the watcher.                                                   *)
(***************************************************************************)
PollPages == {<<>>, <<"m1">>}

NextPoll ==
    \/ \E o \in GreetOutcomes : StopWatch(o)
    \/ StopWatchJoined
    \/ \E o \in GreetOutcomes : StopWatchFarewell(o)
    \/ \E o \in SendOutcomes : ManualSend(o)
    \/ LoopTest(1)
    \/ \E items \in PollPages, tok \in Tokens, ms \in IntervalInputs : FetchOk(1, items, tok, ms)
    \/ FetchFail(1)
    \/ ProcessItem(1)
    \/ \E g \in {GenError, "hi"}, o \in {"ok", "raise"} : Reply(1, g, o)
    \/ Except(1)
    \/ ErrorSleepDone(1)
    \/ PollSleepDone(1)

SpecPoll == InitLoop /\ [][NextPoll]_vars

(***************************************************************************)
(* SpecRetry: the three send buttons in a connected session with no        *)
(* watcher, with every way the first and the second call of                *)
(* liveChatMessages.insert can end.                                        *)
(***************************************************************************)
NextRetry ==
    \/ ToggleAutoGreet
    \/ \E text \in ButtonTexts, first, second \in AttemptOutcomes :
            SendWithRetry(text, first, second)

SpecRetry == InitLog /\ [][NextRetry]_vars

(***************************************************************************)
(* SpecGreet: the rows of the script thread's sends.  A session with no    *)
(* watcher: connect and stop with their greetings and the three send       *)
(* buttons, the insert behind each ending in every way it can.             *)
(***************************************************************************)
NextGreet ==
    \/ ToggleAutoGreet
    \/ \E o \in SendOutcomes : Connect(o)
    \/ \E o \in SendOutcomes : StopWatch(o)
    \/ \E text \in ButtonTexts, first, second \in AttemptOutcomes :
            SendWithRetry(text, first, second)

SpecGreet == Init /\ [][NextGreet]_vars

(***************************************************************************)
(* Properties                                                              *)
(***************************************************************************)
RowsOfItem(t, m) ==
    {i \in DOMAIN chat_log : log_src[i].by = "item" /\ log_src[i].w = t
                             /\ ~chat_log[i].bot /\ chat_log[i].text = ItemText(m)}
DecisionsOn(t, m) == {i \in DOMAIN decisions : decisions[i].w = t /\ decisions[i].id = m}

\* C1: a watcher appends at most one row and makes at most one reply decision
\* for an external message id, however often the transport returns the id.
C1_OneRowPerMessageId ==
    \A t \in Threads, m \in MsgIds :
        /\ Cardinality(RowsOfItem(t, m)) <= 1
        /\ Cardinality(DecisionsOn(t, m)) <= 1

\* C2: at most one watcher loop is running at any time.
C2_AtMostOneLoop == Cardinality({t \in Threads : IsAlive(t)}) <= 1

\* C3: two authorizations of one watcher's gate for the same author are at
\* least RateLimitSec apart.
C3_CooldownBetweenAuthorizations ==
    \A i, j \in DOMAIN decisions :
        (/\ i < j
         /\ decisions[i].ok /\ decisions[j].ok
         /\ decisions[i].w = decisions[j].w
         /\ ItemChannel(decisions[i].id) = ItemChannel(decisions[j].id))
        => decisions[j].at - decisions[i].at >= RateLimitSec

\* two different messages of one author decided at the same instant (one poll
\* cycle): the first authorized, the second refused
C3_Witness ==
    \E i, j \in DOMAIN decisions :
        /\ i < j
        /\ decisions[i].id # decisions[j].id
        /\ ItemChannel(decisions[i].id) = ItemChannel(decisions[j].id)
        /\ decisions[i].w = decisions[j].w
        /\ decisions[i].at = decisions[j].at
        /\ decisions[i].ok /\ ~decisions[j].ok

\* C4: the gate never authorizes a reply to a message the bot's own channel posted.
C4_NoReplyToSelf ==
    \A i \in DOMAIN decisions : decisions[i].ok => ItemChannel(decisions[i].id) # BotChannel

StartGreetings == Cardinality({i \in DOMAIN log_src : log_src[i].by = "connect"})
EndGreetings == Cardinality({i \in DOMAIN log_src : log_src[i].by = "stop"})

\* C5: one start greeting per disconnected-to-connected edge and one end greeting
\* per connected-to-disconnected edge.  yt_connected goes from False to True at
\* most once and never back, so a session has at most one of each.
C5_OneGreetingPerEdge ==
    /\ StartGreetings <= (IF yt_connected THEN 1 ELSE 0)
    /\ EndGreetings <= (IF yt_connected THEN 1 ELSE 0)

\* C6: the farewell is sent at most once in a connected session.
C6_FarewellAtMostOnce == EndGreetings <= 1

\* C7: start_watch with the tracked thread alive reports "already running" and
\* changes nothing else.
C7_StartWhileAliveIsNoOp ==
    [][(IsAlive(watcher_thread) /\ \E g, c \in BOOLEAN : StartWatch(g, c))
         => (/\ ui_msg' = "already running"
             /\ UNCHANGED <<stop_event, watcher_thread, watcher_vars, chat_log>>)]_vars

C7_Witness == ui_msg = "already running" /\ IsAlive(watcher_thread)

\* C8: the chat log never holds more than the retention bound, the 800 rows
\* render_chat_log shows.
C8_LogWithinRetention == Len(chat_log) <= DisplayTail

IsPrefix(s, r) == Len(s) <= Len(r) /\ SubSeq(r, 1, Len(s)) = s

\* the rows of the text items of a page, in the page's order
RECURSIVE PageRows(_)
PageRows(items) ==
    IF items = <<>> THEN <<>>
    ELSE IF ItemText(Head(items)) = None THEN PageRows(Tail(items))
    ELSE <<UserRow(Head(items))>> \o PageRows(Tail(items))

\* the item rows watcher t appended after the first `from` rows of the log
RECURSIVE ItemRowsAfter(_, _)
ItemRowsAfter(t, from) ==
    IF from >= Len(chat_log) THEN <<>>
    ELSE IF log_src[from + 1].by = "item" /\ log_src[from + 1].w = t
    THEN <<chat_log[from + 1]>> \o ItemRowsAfter(t, from + 1)
    ELSE ItemRowsAfter(t, from + 1)

CycleInOrder ==
    \A t \in Threads :
        pc[t] \in {"items", "reply"} =>
            ItemRowsAfter(t, cycle_start[t])
                = PageRows(SubSeq(page[t], 1, IF pc[t] = "reply" THEN idx[t] ELSE idx[t] - 1))

\* C9: every step leaves the rows already in the log in place, and the item
\* rows of the poll cycle in progress are the rows of the page's text items
\* handled so far, in the transport's order.
C9_AppendOnlyInOrder ==
    [][IsPrefix(chat_log, chat_log') /\ CycleInOrder']_vars

\* both text items of a two-item page have their rows, the second being handled
C9_Witness ==
    /\ pc[1] = "reply" /\ idx[1] = 2
    /\ ItemText(page[1][1]) # None
    /\ Len(ItemRowsAfter(1, cycle_start[1])) = 2

\* C10: a thread leaves run only from the loop test with the stop event set; an
\* exception in a cycle leads through the except and finally clauses back to
\* the loop test.
C10_OnlyCancellationEndsLoop ==
    [][\A t \in Threads :
         /\ (pc[t] # "done" /\ pc'[t] = "done") => (pc[t] = "top" /\ stop_event)
         /\ (pc[t] = "except" /\ pc'[t] # pc[t]) => pc'[t] = "error_sleep"
         /\ (pc[t] = "error_sleep" /\ pc'[t] # pc[t]) => pc'[t] = "finally"
         /\ (pc[t] = "finally" /\ pc'[t] # pc[t]) => pc'[t] = "top"]_vars

\* after a failed cycle (its System row is in the log) the loop is fetching again
C10_Witness ==
    /\ \E i \in DOMAIN log_src : log_src[i].by = "except" /\ log_src[i].w = 1
    /\ pc[1] = "fetching"
    /\ ~stop_event

\* a step of watcher t in which a page fetch, a send or a call of the
\* generative service fails
CycleFailure(t) ==
    \/ FetchFail(t)
    \/ \E g \in GenOutcomes : Reply(t, g, "http_error") \/ Reply(t, g, "raise")
    \/ character[t] /\ Reply(t, GenError, "ok")

\* C11: every failure of a fetch, a send or a generative call in the loop takes
\* the watcher to its except clause, which appends a System row and sleeps the
\* error backoff before the next fetch.
C11_EveryFailureIsSystemRecorded ==
    [][\A t \in Threads :
         /\ CycleFailure(t) => pc'[t] = "except"
         /\ (pc[t] = "except" /\ pc'[t] # pc[t]) =>
                /\ chat_log' = Append(chat_log, SystemRow)
                /\ pc'[t] = "error_sleep"]_vars

\* stop_watch has set the stop event for watcher t and t has not ended: the
\* script thread is inside the join on t, or has dropped t after the join (only
\* stop_watch takes a live thread out of ss.watcher_thread)
Cancelled(t) ==
    /\ IsAlive(t)
    /\ (t = watcher_thread /\ ui_pc = "join") \/ t # watcher_thread

\* C12: once stop_watch has set the stop event for a watcher, that watcher
\* starts no further page fetch.
C12_NoFetchAfterCancel ==
    [][\A t \in Threads : Cancelled(t) => ~(pc[t] = "top" /\ pc'[t] = "fetching")]_vars

\* C13: start_watch without a connection, without a character, or with
\* auto-reply on and no model, starts nothing: no thread, no new watcher, the
\* stop event and ss.watcher_thread as they were, and no report of a start.
C13_StartFailsFast ==
    [][\A g, c \in BOOLEAN :
         (StartWatch(g, c) /\ (~yt_connected \/ ~c \/ (ai_enabled /\ ~g)))
            => (/\ ui_msg' # "started"
                /\ UNCHANGED <<stop_event, watcher_thread, watcher_vars>>)]_vars

\* C14: whoever reads or appends to the chat log holds ss.chat_lock while doing
\* so, and no read of the log happens while an append is under way.
C14_LogAccessUnderLock ==
    /\ ui_pc = "render" => chat_lock = UiThread
    /\ ui_pc = "append" => chat_lock = UiThread
    /\ \A t \in Threads : pc[t] = "except_locked" => chat_lock = t
    /\ ~(ui_pc = "render" /\ chat_lock \in Threads)

\* C15: _should_reply(author) returns True exactly when auto-reply is on, a
\* model is configured, the author is not the bot itself, and the author has no
\* entry in last_reply_at (0 in the model) or the entry is at least RateLimitSec old.
C15_ReplyDecisionExact ==
    [][\A t \in Threads :
         ProcessItem(t) =>
            LET author == ItemChannel(page[t][idx[t]])
                last == last_reply_at[t][author]
            IN decisions'[Len(decisions')].ok
                  <=> (/\ auto_reply[t] /\ ai_model[t]
                       /\ author # BotChannel
                       /\ (last = 0 \/ now - last >= RateLimitSec))]_vars

\* the cursor of the latest response watcher t got: None before the first, and
\* None when the response had no nextPageToken
LastCursor(t) ==
    IF fetch_hist[t].resp = <<>> THEN None ELSE fetch_hist[t].resp[1].tok

\* C16: a list request carries the cursor of the latest response (None before
\* the first response), and a failed request leaves the stored cursor as it was.
C16_FetchUsesLatestCursor ==
    [][\A t \in Threads :
         /\ pc'[t] = "fetching" => fetch_hist'[t].req = LastCursor(t)'
         /\ FetchFail(t) => next_page_token'[t] = next_page_token[t]]_vars

\* a request that carried the cursor t1 has failed, and the watcher is back at
\* its loop test with that cursor stored
C16_Witness ==
    /\ pc[1] = "top" /\ ~stop_event
    /\ fetch_hist[1].req = "t1"
    /\ next_page_token[1] = "t1"
    /\ \E i \in DOMAIN log_src : log_src[i].by = "except"

\* C17: when the text generated for an authorized message is not empty, it is
\* sent once, it has between 1 and ReplyMaxLen characters, and one Bot row with
\* that text is appended whose sent flag says whether the send succeeded.
C17_OneSendOneRowPerReply ==
    [][\A t \in Threads, g \in GenOutcomes, o \in SendOutcomes :
         (Reply(t, g, o) /\ ~GenRaises(t) /\ generate_ai_reply(t, g) # "") =>
            LET text == generate_ai_reply(t, g)
            IN /\ TextLen(text) >= 1 /\ TextLen(text) <= ReplyMaxLen
               /\ chat_log' = Append(chat_log,
                                     BotRow(text, IF o = "ok" THEN "True" ELSE "False"))
               /\ log_src'[Len(log_src')].outcome = o]_vars

\* C18: when the generative call for an authorized message raises or returns
\* nothing but blanks, nothing is sent and no row is appended, and the loop
\* goes on with the next item of the page (or ends the cycle after the last).
C18_GenerationFailureSkipsReply ==
    [][\A t \in Threads, g \in {GenError, "   "} :
         (Reply(t, g, "ok") /\ ~GenRaises(t)) =>
            /\ UNCHANGED <<chat_log, log_src, last_reply_at>>
            /\ IF idx[t] < Len(page[t])
               THEN pc'[t] = "items" /\ idx'[t] = idx[t] + 1 /\ page'[t] = page[t]
               ELSE pc'[t] = "finally"]_vars

\* the reply to the first message of a two-message page was skipped, and the
\* second message has its row
C18_Witness ==
    /\ Len(page[1]) = 2 /\ idx[1] = 2
    /\ character[1]
    /\ Len(decisions) = 2
    /\ decisions[1].ok /\ decisions[1].id = page[1][1]
    /\ Len(ItemRowsAfter(1, cycle_start[1])) = 2
    /\ Len(chat_log) = cycle_start[1] + 2

\* the for loop of watcher t stands at an item without message text
AtNonText(t) == pc[t] = "items" /\ ItemText(page[t][idx[t]]) = None

\* C19: the step a watcher takes at an item without message text appends no
\* row, makes no reply decision and leaves last_reply_at alone, and the loop
\* stands at the next item of the same page afterwards (the cycle ends when
\* the item was the last).
C19_NonTextItemSkipped ==
    [][\A t \in Threads :
         (AtNonText(t) /\ <<pc[t], idx[t]>>' # <<pc[t], idx[t]>>) =>
            /\ UNCHANGED <<chat_log, log_src, decisions, last_reply_at>>
            /\ IF idx[t] < Len(page[t])
               THEN pc'[t] = "items" /\ idx'[t] = idx[t] + 1 /\ page'[t] = page[t]
               ELSE pc'[t] = "finally"]_vars

\* the page began with a non-text item; the text item after it has its row, the
\* only row of the cycle
C19_Witness ==
    /\ pc[1] = "reply" /\ idx[1] = 2
    /\ ItemText(page[1][1]) = None
    /\ Len(ItemRowsAfter(1, cycle_start[1])) = 1

\* the sleep run's finally clause asks for after the latest response of watcher
\* t, as the claim states it
ClaimedSleepMs(t) ==
    IF fetch_hist[t].resp = <<>> THEN DefaultPollMs
    ELSE LET ms == fetch_hist[t].resp[1].ms
         IN IF ms = {} THEN DefaultPollMs
            ELSE IF \E x \in ms : x < MinPollMs THEN MinPollMs
            ELSE CHOOSE x \in ms : TRUE

\* C20: the sleep between two poll cycles is never below MinPollMs: it is
\* the interval of the latest response, raised to the floor, DefaultPollMs when
\* the response has none, and DefaultPollMs before the first response.
C20_PollSleepAtLeastFloor ==
    \A t \in Threads :
        IsAlive(t) =>
            /\ polling_interval[t] >= MinPollMs
            /\ polling_interval[t] = ClaimedSleepMs(t)

\* the transport recommended 200 ms and the watcher sleeps 1000 ms
C20_Witness ==
    /\ pc[1] = "finally"
    /\ fetch_hist[1].resp # <<>>
    /\ fetch_hist[1].resp[1].ms = {200}
    /\ polling_interval[1] = MinPollMs

\* C21: execute_with_retry calls the request at most twice: twice when the
\* first call fails with the SSL error, and then the second call's return or
\* exception is the outcome; once otherwise, the first call's return or
\* exception being the outcome.
C21_RetryOnceOnSslError ==
    [][\A text \in ButtonTexts, first, second \in AttemptOutcomes :
         SendWithRetry(text, first, second) =>
            /\ last_call'.calls \in {1, 2}
            /\ last_call'.calls = 2 <=> first \in {"http_ssl", "other_ssl"}
            /\ last_call'.result = (IF last_call'.calls = 2 THEN second ELSE first)]_vars

\* the first call failed with the SSL error and the second returned: the send
\* went through and its row says so
C21_Witness ==
    /\ last_call = [calls |-> 2, result |-> "ok"]
    /\ chat_log # <<>>
    /\ chat_log[Len(chat_log)].sent = "True"

\* C22: the for loop over a fetched page is left only when no text item of the
\* page is still unhandled: every text item of a page gets its user row, also
\* when the handling of an earlier item raises.
C22_NoFetchedTextLost ==
    [][\A t \in Threads :
         (pc[t] \in {"items", "reply"} /\ pc'[t] \notin {"items", "reply"}) =>
            \A k \in (idx[t] + 1)..Len(page[t]) : ItemText(page[t][k]) = None]_vars

\* C23: a Bot row whose sent flag is True stands for an insert that succeeded.
C23_FlagTrueOnlyIfSent ==
    \A i \in DOMAIN chat_log :
        (chat_log[i].bot /\ chat_log[i].sent = "True") => log_src[i].outcome = "ok"

\* watcher t has made a reply decision in this step
Decided(t) ==
    /\ Len(decisions') = Len(decisions) + 1
    /\ decisions'[Len(decisions')].w = t

\* watcher t authorized a message of the author less than RateLimitSec ago and
\* has sent no reply since it started
AuthorizedUnsent(t, author) ==
    /\ \E i \in DOMAIN decisions :
          /\ decisions[i].w = t /\ decisions[i].ok
          /\ ItemChannel(decisions[i].id) = author
          /\ now - decisions[i].at < RateLimitSec
    /\ ~\E k \in DOMAIN log_src : log_src[k].by = "reply" /\ log_src[k].w = t

\* C24: the author's cooldown entry is written in the step that authorizes the
\* message, the step that generates and sends leaves it alone however it ends,
\* and after an authorization that led to no send a further message of the
\* author within RateLimitSec is refused.
C24_CooldownRecordedAtAuthorization ==
    [][\A t \in Threads :
         LET d == decisions'[Len(decisions')]
         IN /\ (Decided(t) /\ d.ok) => last_reply_at'[t][ItemChannel(d.id)] = d.at
            /\ (pc[t] = "reply" /\ pc'[t] # "reply") => last_reply_at'[t] = last_reply_at[t]
            /\ (Decided(t) /\ AuthorizedUnsent(t, ItemChannel(d.id))) => ~d.ok]_vars

\* a message was authorized and nothing was sent for it; a message of the same
\* author decided later, within RateLimitSec, was refused
C24_Witness ==
    /\ Len(decisions) = 2
    /\ decisions[1].ok /\ ~decisions[2].ok
    /\ decisions[1].w = decisions[2].w
    /\ ItemChannel(decisions[1].id) = ItemChannel(decisions[2].id)
    /\ decisions[2].at > decisions[1].at
    /\ decisions[2].at - decisions[1].at < RateLimitSec
    /\ \A k \in DOMAIN log_src : log_src[k].by = "item"

====
